---- MODULE Spec2Model ----
(***************************************************************************)
(* A model of the SCS Key Service client (package client): client          *)
(* construction, request building, PKSAdd and PKSLookup, with the HTTP     *)
(* transport as the environment.  Strings are TLA+ strings and are taken   *)
(* apart character by character, as net/url does.  A value that a function *)
(* of the source uses several times is handed on as an operator parameter. *)
(***************************************************************************)
EXTENDS Integers, Sequences, FiniteSets, TLC

(***************************************************************************)
(* Strings                                                                 *)
(***************************************************************************)
Char(s, i) == SubSeq(s, i, i)

LowerLetters == "abcdefghijklmnopqrstuvwxyz"
UpperLetters == "ABCDEFGHIJKLMNOPQRSTUVWXYZ"
DigitChars == "0123456789"

Letters ==
  {"a", "b", "c", "d", "e", "f", "g", "h", "i", "j", "k", "l", "m", "n", "o", "p", "q",
   "r", "s", "t", "u", "v", "w", "x", "y", "z", "A", "B", "C", "D", "E", "F", "G", "H",
   "I", "J", "K", "L", "M", "N", "O", "P", "Q", "R", "S", "T", "U", "V", "W", "X", "Y",
   "Z"}
Digits == {"0", "1", "2", "3", "4", "5", "6", "7", "8", "9"}

\* strings.Index for a one-character needle, 1-based; 0 when absent
IndexOf(s, c) ==
  IF \E i \in 1..Len(s) : Char(s, i) = c
  THEN CHOOSE i \in 1..Len(s) : Char(s, i) = c /\ \A j \in 1..(i - 1) : Char(s, j) # c
  ELSE 0

\* strings.LastIndex for a one-character needle, 1-based; 0 when absent
LastIndexOf(s, c) ==
  IF \E i \in 1..Len(s) : Char(s, i) = c
  THEN CHOOSE i \in 1..Len(s) : Char(s, i) = c /\ \A j \in (i + 1)..Len(s) : Char(s, j) # c
  ELSE 0

HasPrefix(s, p) == Len(s) >= Len(p) /\ SubSeq(s, 1, Len(p)) = p

\* strings.Cut at index i of the separator (0: not found)
CutAt(s, i) ==
  IF i = 0 THEN [before |-> s, after |-> "", found |-> FALSE]
  ELSE [before |-> SubSeq(s, 1, i - 1), after |-> SubSeq(s, i + 1, Len(s)), found |-> TRUE]

\* strings.Cut(s, sep) for a one-character separator
Cut(s, sep) == CutAt(s, IndexOf(s, sep))

LowerOf(c, u) == IF u > 0 THEN Char(LowerLetters, u) ELSE c

RECURSIVE ToLower(_)
ToLower(s) ==
  IF s = "" THEN ""
  ELSE LowerOf(Char(s, 1), IndexOf(UpperLetters, Char(s, 1))) \o ToLower(Tail(s))

\* strings.Split(s, sep) for a one-character separator
RECURSIVE Split(_, _)
RECURSIVE SplitCut(_, _)
SplitCut(cut, sep) ==
  IF ~ cut.found THEN <<cut.before>> ELSE <<cut.before>> \o Split(cut.after, sep)
Split(s, sep) == SplitCut(Cut(s, sep), sep)

\* strings.Join(elems, sep)
RECURSIVE Join(_, _)
Join(elems, sep) ==
  IF Len(elems) = 0 THEN ""
  ELSE IF Len(elems) = 1 THEN elems[1]
  ELSE elems[1] \o sep \o Join(Tail(elems), sep)

\* strconv.Itoa for a non-negative int
RECURSIVE Itoa(_)
Itoa(n) ==
  IF n < 10 THEN Char(DigitChars, n + 1)
  ELSE Itoa(n \div 10) \o Char(DigitChars, (n % 10) + 1)

(***************************************************************************)
(* Errors                                                                  *)
(***************************************************************************)
NoError == [kind |-> "nil", Code |-> 0, Message |-> ""]
ParseError(why) == [kind |-> "url.Error", Code |-> 0, Message |-> why]
\* jsonresp.NewError(code, message): the typed JSON-response error
JSONError(code, message) == [kind |-> "jsonresp.Error", Code |-> code, Message |-> message]
TransportError(why) == [kind |-> "transport", Code |-> 0, Message |-> why]
ReadError == [kind |-> "read", Code |-> 0, Message |-> "unexpected EOF"]

(***************************************************************************)
(* net/url: Parse, String, ResolveReference                                *)
(***************************************************************************)
EmptyURL == [Scheme |-> "", Opaque |-> "", Host |-> "", Path |-> "", RawQuery |-> ""]

\* Whether getScheme's loop stops at character c, the i-th: c is neither a
\* letter nor (after the first) a digit, '+', '-' or '.'.
SchemeStops(c, i) ==
  c \notin Letters /\ ~ (i > 1 /\ (c \in Digits \/ c \in {"+", "-", "."}))

SchemeStop(rawurl) ==
  IF \E i \in 1..Len(rawurl) : SchemeStops(Char(rawurl, i), i)
  THEN CHOOSE i \in 1..Len(rawurl) :
         \A j \in 1..i : SchemeStops(Char(rawurl, j), j) <=> (j = i)
  ELSE 0

GetSchemeAt(rawurl, i) ==
  IF i = 0 \/ Char(rawurl, i) # ":"
  THEN [scheme |-> "", rest |-> rawurl, err |-> NoError]
  ELSE IF i = 1
  THEN [scheme |-> "", rest |-> "", err |-> ParseError("missing protocol scheme")]
  ELSE [scheme |-> SubSeq(rawurl, 1, i - 1),
        rest |-> SubSeq(rawurl, i + 1, Len(rawurl)), err |-> NoError]

getScheme(rawurl) == GetSchemeAt(rawurl, SchemeStop(rawurl))

\* validOptionalPort: "" or ":" followed by digits only
validOptionalPort(port) ==
  port = "" \/ (Char(port, 1) = ":" /\ \A i \in 2..Len(port) : Char(port, i) \in Digits)

\* A host split at its last colon, at index i (0: no colon): the port is
\* what follows when that is digits only
SplitHostPortAt(host, i) ==
  IF i > 0 /\ validOptionalPort(SubSeq(host, i, Len(host)))
  THEN [hostname |-> SubSeq(host, 1, i - 1), port |-> SubSeq(host, i + 1, Len(host)),
        valid |-> TRUE]
  ELSE [hostname |-> host, port |-> "", valid |-> i = 0]

SplitHostPort(host) == SplitHostPortAt(host, LastIndexOf(host, ":"))

\* url.URL.Hostname and url.URL.Port (no IPv6 literals in this model)
Hostname(u) == SplitHostPort(u.Host).hostname
Port(u) == SplitHostPort(u.Host).port

\* The authority and the path of what follows "//", cut before the first "/"
SplitAuthorityAt(s, i) ==
  IF i = 0 THEN [authority |-> s, path |-> ""]
  ELSE [authority |-> SubSeq(s, 1, i - 1), path |-> SubSeq(s, i, Len(s))]

ParseAuthority(scheme, query, a) ==
  IF ~ SplitHostPort(a.authority).valid
  THEN [url |-> EmptyURL, err |-> ParseError("invalid port")]
  ELSE [url |-> [Scheme |-> scheme, Opaque |-> "", Host |-> a.authority,
                 Path |-> a.path, RawQuery |-> query],
        err |-> NoError]

ParseRest(scheme, rest, query) ==
  IF ~ HasPrefix(rest, "/") /\ scheme # ""
  THEN [url |-> [EmptyURL EXCEPT !.Scheme = scheme, !.Opaque = rest, !.RawQuery = query],
        err |-> NoError]
  ELSE IF ~ HasPrefix(rest, "/") /\ IndexOf(Cut(rest, "/").before, ":") > 0
  THEN [url |-> EmptyURL,
        err |-> ParseError("first path segment in URL cannot contain colon")]
  ELSE IF HasPrefix(rest, "//") /\ (scheme # "" \/ ~ HasPrefix(rest, "///"))
  THEN ParseAuthority(scheme, query,
                      SplitAuthorityAt(SubSeq(rest, 3, Len(rest)),
                                       IndexOf(SubSeq(rest, 3, Len(rest)), "/")))
  ELSE [url |-> [Scheme |-> scheme, Opaque |-> "", Host |-> "", Path |-> rest,
                 RawQuery |-> query],
        err |-> NoError]

ParseAfterScheme(scheme, cut) == ParseRest(scheme, cut.before, cut.after)

ParseScheme(gs) ==
  IF gs.err # NoError THEN [url |-> EmptyURL, err |-> gs.err]
  ELSE ParseAfterScheme(ToLower(gs.scheme), Cut(gs.rest, "?"))

\* url.Parse, for addresses without fragment and user information
Parse(rawurl) == ParseScheme(getScheme(rawurl))

\* url.URL.String
String(u) ==
  (IF u.Scheme # "" THEN u.Scheme \o ":" ELSE "")
  \o (IF u.Opaque # "" THEN u.Opaque
      ELSE (IF (u.Scheme # "" \/ u.Host # "") /\ (u.Host # "" \/ u.Path # "")
            THEN "//" \o u.Host ELSE "")
           \o (IF u.Path # "" /\ Char(u.Path, 1) # "/" /\ u.Host # "" THEN "/" ELSE "")
           \o u.Path)
  \o (IF u.RawQuery # "" THEN "?" \o u.RawQuery ELSE "")

\* resolvePath: the reference path against the base path, dot segments removed
RECURSIVE RemoveDots(_, _)
RemoveDots(src, dst) ==
  IF Len(src) = 0 THEN dst
  ELSE IF Head(src) = "." THEN RemoveDots(Tail(src), dst)
  ELSE IF Head(src) = ".."
  THEN RemoveDots(Tail(src), IF Len(dst) > 0 THEN SubSeq(dst, 1, Len(dst) - 1) ELSE dst)
  ELSE RemoveDots(Tail(src), Append(dst, Head(src)))

SlashPrefix(joined) == "/" \o (IF HasPrefix(joined, "/") THEN Tail(joined) ELSE joined)

JoinClean(src) ==
  SlashPrefix(Join(RemoveDots(src, <<>>)
                   \o (IF src[Len(src)] \in {".", ".."} THEN <<"">> ELSE <<>>), "/"))

CleanPath(full) == IF full = "" THEN "" ELSE JoinClean(Split(full, "/"))

\* resolvePath with a relative reference appended to the whole base path
resolvePath_Append(base, ref) ==
  CleanPath(IF ref = "" THEN base
            ELSE IF Char(ref, 1) # "/" THEN base \o "/" \o ref
            ELSE ref)

resolvePath(base, ref) ==
  CleanPath(IF ref = "" THEN base
            ELSE IF Char(ref, 1) # "/"
            THEN SubSeq(base, 1, LastIndexOf(base, "/")) \o ref
            ELSE ref)

\* url.URL.ResolveReference for a reference holding only Path and RawQuery
ResolveReference(u, ref) ==
  IF ref.Path = "" /\ u.Opaque # ""
  THEN [Scheme |-> u.Scheme, Opaque |-> u.Opaque, Host |-> "", Path |-> "",
        RawQuery |-> IF ref.RawQuery = "" THEN u.RawQuery ELSE ref.RawQuery]
  ELSE [Scheme |-> u.Scheme, Opaque |-> "", Host |-> u.Host,
        Path |-> resolvePath(u.Path, ref.Path),
        RawQuery |-> IF ref.Path = "" /\ ref.RawQuery = "" THEN u.RawQuery
                     ELSE ref.RawQuery]

(***************************************************************************)
(* net/url: Values, QueryEscape, Encode, ParseQuery                        *)
(***************************************************************************)
\* The characters QueryEscape writes as %XX, each with its two hex digits
EscapedChars == "&=+,/:%?@"
EscapeCodes == <<"26", "3D", "2B", "2C", "2F", "3A", "25", "3F", "40">>

EscapeChar(c) ==
  IF c \in Letters \/ c \in Digits \/ c \in {"-", "_", ".", "~"} THEN c
  ELSE IF c = " " THEN "+"
  ELSE "%" \o EscapeCodes[IndexOf(EscapedChars, c)]

RECURSIVE QueryEscape(_)
QueryEscape(s) ==
  IF s = "" THEN "" ELSE EscapeChar(Char(s, 1)) \o QueryEscape(Tail(s))

\* The character a %XX escape stands for ("" for one this model does not know)
Unhex(xx) ==
  IF \E i \in 1..Len(EscapeCodes) : EscapeCodes[i] = xx
  THEN Char(EscapedChars, CHOOSE i \in 1..Len(EscapeCodes) : EscapeCodes[i] = xx)
  ELSE ""

RECURSIVE QueryUnescape(_)
QueryUnescape(s) ==
  IF s = "" THEN ""
  ELSE IF Char(s, 1) = "%"
  THEN Unhex(SubSeq(s, 2, 3)) \o QueryUnescape(SubSeq(s, 4, Len(s)))
  ELSE (IF Char(s, 1) = "+" THEN " " ELSE Char(s, 1)) \o QueryUnescape(Tail(s))

\* url.Values: a map from keys to lists of values
EmptyValues == <<>>

Has(v, key) == key \in DOMAIN v

\* Values.Get / Header.Get: the first value, "" when the key is absent
Get(v, key) == IF key \in DOMAIN v /\ Len(v[key]) > 0 THEN v[key][1] ELSE ""

\* Values.Set / Header.Set: the key's values become the one value
Set(v, key, value) ==
  [k \in DOMAIN v \cup {key} |-> IF k = key THEN <<value>> ELSE v[k]]

\* Values.Add: one more value for the key
Add(v, key, value) ==
  [k \in DOMAIN v \cup {key} |->
     IF k # key THEN v[k]
     ELSE IF key \in DOMAIN v THEN Append(v[key], value) ELSE <<value>>]

\* The keys this client uses, in the byte order Values.Encode sorts them into
SortedKeys ==
  <<"exact", "fingerprint", "keytext", "op", "options", "search", "x-pagesize",
    "x-pagetoken">>

RECURSIVE EncodeKey(_, _)
EncodeKey(key, vals) ==
  IF Len(vals) = 0 THEN <<>>
  ELSE <<QueryEscape(key) \o "=" \o QueryEscape(Head(vals))>> \o EncodeKey(key, Tail(vals))

EncodeIfSet(v, key) == IF key \in DOMAIN v THEN EncodeKey(key, v[key]) ELSE <<>>

RECURSIVE EncodeFrom(_, _)
EncodeFrom(v, i) ==
  IF i > Len(SortedKeys) THEN <<>>
  ELSE EncodeIfSet(v, SortedKeys[i]) \o EncodeFrom(v, i + 1)

\* Values.Encode: "k=v" pairs, sorted by key, joined by "&"
Encode(v) == Join(EncodeFrom(v, 1), "&")

AddCut(v, cut) == Add(v, QueryUnescape(cut.before), QueryUnescape(cut.after))

AddPair(v, kv) == IF kv = "" THEN v ELSE AddCut(v, Cut(kv, "="))

RECURSIVE ParsePairs(_, _)
ParsePairs(pairs, v) ==
  IF Len(pairs) = 0 THEN v ELSE ParsePairs(Tail(pairs), AddPair(v, Head(pairs)))

\* url.ParseQuery, as the server's Request.ParseForm applies it
ParseQuery(query) == ParsePairs(Split(query, "&"), EmptyValues)

(***************************************************************************)
(* Address normalization                                                   *)
(***************************************************************************)
\* The host of an hkp address: port 11371 is added when none is given
HKPHost(host, hp) == IF hp.port = "" THEN hp.hostname \o ":" \o "11371" ELSE host

\* normalizeURL: http and https stay; hkp becomes http with port 11371 when
\* no port is given; hkps becomes https; any other scheme is an error.
normalizeURL(u) ==
  IF u.Scheme \in {"http", "https"} THEN [url |-> u, err |-> NoError]
  ELSE IF u.Scheme = "hkp"
  THEN [url |-> [u EXCEPT !.Scheme = "http", !.Host = HKPHost(@, SplitHostPort(@))],
        err |-> NoError]
  ELSE IF u.Scheme = "hkps"
  THEN [url |-> [u EXCEPT !.Scheme = "https"], err |-> NoError]
  ELSE [url |-> EmptyURL, err |-> ParseError("unsupported protocol scheme")]

(***************************************************************************)
(* Config, Client, NewClient                                               *)
(***************************************************************************)
DefaultHTTPClient == "http.DefaultClient"
NilHTTPClient == "nil"

\* DefaultConfig = &Config{}
DefaultConfig ==
  [isNil |-> FALSE, BaseURL |-> "", AuthToken |-> "", UserAgent |-> "",
   HTTPClient |-> NilHTTPClient]

\* A nil *Config
NilConfig ==
  [isNil |-> TRUE, BaseURL |-> "", AuthToken |-> "", UserAgent |-> "",
   HTTPClient |-> NilHTTPClient]

\* A nil *Client
NoClient ==
  [isNil |-> TRUE, baseURL |-> EmptyURL, authToken |-> "", userAgent |-> "",
   httpClient |-> NilHTTPClient]

defaultBaseURL == "https://keys.sylabs.io"

\* NewClient once the base URL is parsed
NewClientParsed(cfg, parsed) ==
  IF parsed.err # NoError THEN [c |-> NoClient, err |-> parsed.err]
  ELSE [c |-> [isNil |-> FALSE,
               baseURL |-> parsed.url,
               authToken |-> cfg.AuthToken,
               userAgent |-> cfg.UserAgent,
               httpClient |-> IF cfg.HTTPClient # NilHTTPClient THEN cfg.HTTPClient
                              ELSE DefaultHTTPClient],
        err |-> NoError]

\* NewClient for a non-nil cfg
NewClientFrom(cfg) ==
  NewClientParsed(cfg, Parse(IF cfg.BaseURL # "" THEN cfg.BaseURL ELSE defaultBaseURL))

NewClient(cfg) == NewClientFrom(IF cfg.isNil THEN DefaultConfig ELSE cfg)

(***************************************************************************)
(* newRequest                                                              *)
(***************************************************************************)
NoRequest ==
  [isNil |-> TRUE, Method |-> "", URL |-> EmptyURL, Header |-> EmptyValues, Body |-> ""]

\* net/http validMethod: a non-empty HTTP token (of the token characters, the
\* apostrophe and the backquote are left out of this model)
TokenPunctuation == {"!", "#", "$", "%", "&", "*", "+", "-", ".", "^", "_", "|", "~"}
\* validMethod with any non-empty method taken for valid
validMethod_NonEmpty(method) == Len(method) > 0

validMethod(method) ==
  /\ Len(method) > 0
  /\ \A i \in 1..Len(method) :
       Char(method, i) \in Letters \cup Digits \cup TokenPunctuation

\* net/http removeEmptyPort: "host:" becomes "host"
removeEmptyPort(host) ==
  IF Len(host) > 0 /\ Char(host, Len(host)) = ":" THEN SubSeq(host, 1, Len(host) - 1)
  ELSE host

\* http.NewRequest once the method is defaulted and the URL parsed
HTTPNewRequestParsed(method, parsed, body) ==
  IF ~ validMethod(method)
  THEN [req |-> NoRequest,
        err |-> [kind |-> "net/http", Code |-> 0, Message |-> "invalid method"]]
  ELSE IF parsed.err # NoError THEN [req |-> NoRequest, err |-> parsed.err]
  ELSE [req |-> [isNil |-> FALSE, Method |-> method,
                 URL |-> [parsed.url EXCEPT !.Host = removeEmptyPort(@)],
                 Header |-> EmptyValues, Body |-> body],
        err |-> NoError]

\* http.NewRequest(method, url, body)
HTTPNewRequest(method, urlStr, body) ==
  HTTPNewRequestParsed(IF method = "" THEN "GET" ELSE method, Parse(urlStr), body)

\* SetIfNotEmpty with the header set whatever the value
SetIfNotEmpty_Always(header, key, value, headerValue) == Set(header, key, headerValue)

\* Header.Set(key, value) when value is not empty
SetIfNotEmpty(header, key, value, headerValue) ==
  IF value # "" THEN Set(header, key, headerValue) ELSE header

\* newRequest once http.NewRequest returned r
newRequestHeaders(c, r) ==
  IF r.err # NoError THEN [req |-> NoRequest, err |-> r.err]
  ELSE [req |-> [r.req EXCEPT !.Header =
                   SetIfNotEmpty(SetIfNotEmpty(@, "Authorization", c.authToken,
                                               "BEARER " \o c.authToken),
                                 "User-Agent", c.userAgent, c.userAgent)],
        err |-> NoError]

newRequest(c, method, path, rawQuery, body) ==
  newRequestHeaders(c,
    HTTPNewRequest(method,
                   String(ResolveReference(c.baseURL,
                                           [Path |-> path, RawQuery |-> rawQuery])),
                   body))

(***************************************************************************)
(* PKSAdd, PKSLookup                                                       *)
(***************************************************************************)
PathPKSAdd == "/pks/add"
PathPKSLookup == "/pks/lookup"
OperationGet == "get"
OperationIndex == "index"
OptionMachineReadable == "mr"
StatusOK == 200

\* VersionInfo{}
NoVersionInfo == [Version |-> ""]

\* A nil *PageDetails
NilPageDetails == [isNil |-> TRUE, Size |-> 0, Token |-> ""]

NoResponse ==
  [isNil |-> TRUE, StatusCode |-> 0, Status |-> "", Header |-> EmptyValues,
   Body |-> "", BodyErr |-> FALSE, Message |-> ""]

\* What httpClient.Do returned: a transport error, or a response
Failed(why) == [err |-> TransportError(why), res |-> NoResponse]
Responded(res) == [err |-> NoError, res |-> res]

\* PKSAdd once newRequest returned r: the Content-Type header is set
PKSAddContentType(r) ==
  IF r.err # NoError THEN r
  ELSE [req |-> [r.req EXCEPT
                   !.Header = Set(@, "Content-Type", "application/x-www-form-urlencoded")],
        err |-> NoError]

\* PKSAdd up to the transport call: the request it hands to httpClient.Do
PKSAddRequest(c, keyText) ==
  PKSAddContentType(newRequest(c, "POST", PathPKSAdd, "",
                               Encode(Set(EmptyValues, "keytext", keyText))))

\* PKSAddResult with every 2xx status taken for success
PKSAddResult_Any2xx(outcome) ==
  IF outcome.err # NoError THEN outcome.err
  ELSE IF outcome.res.StatusCode < 200 \/ outcome.res.StatusCode > 299
  THEN JSONError(outcome.res.StatusCode, outcome.res.Status)
  ELSE NoError

\* PKSAdd after the transport call: the error it returns
PKSAddResult(outcome) ==
  IF outcome.err # NoError THEN outcome.err
  ELSE IF outcome.res.StatusCode # StatusOK
  THEN JSONError(outcome.res.StatusCode, outcome.res.Status)
  ELSE NoError

\* SetIf with a false flag sent as "off"
SetIf_Off(v, cond, key, value) == Set(v, key, IF cond THEN value ELSE "off")

\* if cond { v.Set(key, value) }
SetIf(v, cond, key, value) == IF cond THEN Set(v, key, value) ELSE v

\* if pd != nil { v.Set("x-pagesize", ...); v.Set("x-pagetoken", ...) }
SetPage(v, pd) ==
  IF ~ pd.isNil
  THEN Set(Set(v, "x-pagesize", Itoa(pd.Size)), "x-pagetoken", pd.Token)
  ELSE v

\* The query parameters PKSLookup sets
PKSLookupValues(pd, search, operation, fingerprint, exact, options) ==
  SetPage(SetIf(SetIf(Set(Set(Set(EmptyValues, "search", search), "op", operation),
                          "options", Join(options, ",")),
                      fingerprint, "fingerprint", "on"),
                exact, "exact", "on"),
          pd)

\* PKSLookup up to the transport call
PKSLookupRequest(c, pd, search, operation, fingerprint, exact, options) ==
  newRequest(c, "GET", PathPKSLookup,
             Encode(PKSLookupValues(pd, search, operation, fingerprint, exact, options)),
             "")

\* NextPage with the token kept when the response has no next-page header
NextPage_KeepWhenAbsent(pd, res) ==
  IF ~ pd.isNil /\ Has(res.Header, "X-HKP-Next-Page-Token")
  THEN [pd EXCEPT !.Token = Get(res.Header, "X-HKP-Next-Page-Token")]
  ELSE pd

\* if pd != nil { pd.token = res.Header.Get("X-HKP-Next-Page-Token") }
NextPage(pd, res) ==
  IF ~ pd.isNil THEN [pd EXCEPT !.Token = Get(res.Header, "X-HKP-Next-Page-Token")]
  ELSE pd

\* ReadBody returning what was read before the read failed
ReadBody_KeepsPartial(res, pd) ==
  [response |-> res.Body, err |-> IF res.BodyErr THEN ReadError ELSE NoError, pd |-> pd]

\* ioutil.ReadAll(res.Body) and the return
ReadBody(res, pd) ==
  IF res.BodyErr THEN [response |-> "", err |-> ReadError, pd |-> pd]
  ELSE [response |-> res.Body, err |-> NoError, pd |-> pd]

\* PKSLookupResult with a transport failure reported as a JSON-response error
PKSLookupResult_Translates(pd, outcome) ==
  IF outcome.err # NoError \/ outcome.res.StatusCode # StatusOK
  THEN [response |-> "",
        err |-> JSONError(outcome.res.StatusCode, outcome.res.Status), pd |-> pd]
  ELSE ReadBody(outcome.res, NextPage(pd, outcome.res))

\* PKSLookup after the transport call: the response text, the error, and the
\* PageDetails of the caller as the call leaves it
PKSLookupResult(pd, outcome) ==
  IF outcome.err # NoError THEN [response |-> "", err |-> outcome.err, pd |-> pd]
  ELSE IF outcome.res.StatusCode # StatusOK
  THEN [response |-> "",
        err |-> JSONError(outcome.res.StatusCode, outcome.res.Status), pd |-> pd]
  ELSE ReadBody(outcome.res, NextPage(pd, outcome.res))

(***************************************************************************)
(* GetKey                                                                  *)
(***************************************************************************)
\* The length of a fingerprint, [20]byte
FingerprintLen == 20

\* The digits of the verb %x
HexDigits == "0123456789abcdef"

\* One byte as two hexadecimal digits
HexByte(b) == Char(HexDigits, (b \div 16) + 1) \o Char(HexDigits, (b % 16) + 1)

RECURSIVE HexBytes(_)
HexBytes(bytes) ==
  IF Len(bytes) = 0 THEN "" ELSE HexByte(Head(bytes)) \o HexBytes(Tail(bytes))

\* SprintfHex without the flag '#': no 0x in front
SprintfHex_NoSharp(fingerprint) == HexBytes(fingerprint)

\* fmt.Sprintf("%#x", fingerprint)
SprintfHex(fingerprint) == "0x" \o HexBytes(fingerprint)

\* GetKey up to the transport call: the PKSLookup request for search
GetKeyRequest(c, search) ==
  PKSLookupRequest(c, NilPageDetails, search, OperationGet, FALSE, TRUE, <<>>)

(***************************************************************************)
(* GetVersion                                                              *)
(***************************************************************************)
pathVersion == "version"

\* fmt.Errorf("%w", err): an error with the text of err that wraps err
Errorf(err) == [kind |-> "fmt.wrapError", Code |-> 0, Message |-> err.Message, err |-> err]

\* errors.Unwrap down to the error that wraps nothing (Errorf is applied once)
Cause(err) == IF err.kind = "fmt.wrapError" THEN err.err ELSE err

HasSuffix(s, suffix) ==
  Len(s) >= Len(suffix) /\ SubSeq(s, Len(s) - Len(suffix) + 1, Len(s)) = suffix

\* The JSON text around the version string of a response
JSONBeforeVersion == "{\"data\":{\"version\":\""
JSONAfterVersion == "\"}}"

\* jsonresp.WriteResponse(w, vi, code): the body the server writes
WriteResponse(vi) == JSONBeforeVersion \o vi.Version \o JSONAfterVersion

DecodeError == [kind |-> "json", Code |-> 0, Message |-> "unexpected end of JSON input"]

\* The JSON decoder on a body that was read: the version string between the
\* two parts of the envelope, an error for any other text
Decode(body) ==
  IF /\ Len(body) >= Len(JSONBeforeVersion) + Len(JSONAfterVersion)
     /\ HasPrefix(body, JSONBeforeVersion)
     /\ HasSuffix(body, JSONAfterVersion)
     /\ IndexOf(SubSeq(body, Len(JSONBeforeVersion) + 1,
                       Len(body) - Len(JSONAfterVersion)), "\"") = 0
  THEN [vi |-> [Version |-> SubSeq(body, Len(JSONBeforeVersion) + 1,
                                   Len(body) - Len(JSONAfterVersion))],
        err |-> NoError]
  ELSE [vi |-> NoVersionInfo, err |-> DecodeError]

\* jsonresp.ReadResponse(res.Body, &vi)
ReadResponse(res) ==
  IF res.BodyErr THEN [vi |-> NoVersionInfo, err |-> ReadError] ELSE Decode(res.Body)

\* c.NewRequest(ctx, method, ref, body): the request builder of section 4.3
NewRequest(c, method, ref, body) == newRequest(c, method, ref.Path, ref.RawQuery, body)

\* errorFromResponse(res): the typed error of section 4.8, its code the status
\* and its message the message of the error envelope
errorFromResponse(res) == JSONError(res.StatusCode, res.Message)

\* if err != nil { return VersionInfo{}, fmt.Errorf("%w", err) }
Wrapped(r) == IF r.err # NoError THEN [r EXCEPT !.err = Errorf(@)] ELSE r

\* GetVersion up to the transport call
GetVersionRequest(c) ==
  Wrapped(NewRequest(c, "GET", [Path |-> pathVersion, RawQuery |-> ""], ""))

\* GetVersionResult without the check of the status
GetVersionResult_NoStatusCheck(outcome) ==
  IF outcome.err # NoError THEN [vi |-> NoVersionInfo, err |-> Errorf(outcome.err)]
  ELSE Wrapped(ReadResponse(outcome.res))

\* GetVersion after the transport call: the VersionInfo and the error
GetVersionResult(outcome) ==
  IF outcome.err # NoError THEN [vi |-> NoVersionInfo, err |-> Errorf(outcome.err)]
  ELSE IF outcome.res.StatusCode # StatusOK
  THEN [vi |-> NoVersionInfo, err |-> Errorf(errorFromResponse(outcome.res))]
  ELSE Wrapped(ReadResponse(outcome.res))

(***************************************************************************)
(* Inputs                                                                  *)
(***************************************************************************)
\* The most options one lookup is given
MaxOptions == 2

BaseURLs ==
  {"", ":", "bad:", "http://localhost", "http://localhost:8080", "hkp://localhost",
   "http://127.0.0.1", "http://p80.pool.sks-keyservers.net",
   "hkp://pool.sks-keyservers.net/a/b?x=1", "hkp://pool.sks-keyservers.net:80",
   "hkps://hkps.pool.sks-keyservers.net/a/b/"}
AuthTokens == {"", "blah"}
UserAgents == {"", "Secret Agent Man"}
HTTPClients == {NilHTTPClient, "custom"}

\* The configurations NewClient is given: nil, every base URL with and
\* without an auth token, and every choice of the other fields for the
\* default base URL
Configs ==
  {NilConfig}
  \cup [isNil : {FALSE}, BaseURL : BaseURLs, AuthToken : AuthTokens, UserAgent : {""},
        HTTPClient : {NilHTTPClient}]
  \cup [isNil : {FALSE}, BaseURL : {""}, AuthToken : AuthTokens, UserAgent : UserAgents,
        HTTPClient : HTTPClients]

KeyTexts == {"", "key", "mQ+/ =x&y"}
Searches == {"", "search"}
Operations == {"", OperationGet}
OptionTokens == {OptionMachineReadable, "blah"}
OptionLists == UNION {[1..n -> OptionTokens] : n \in 0..MaxOptions}
PageSizes == {0, 42}
PageTokens == {"", "foo"}
PageDetailsIn ==
  {NilPageDetails} \cup [isNil : {FALSE}, Size : PageSizes, Token : PageTokens]

\* http.StatusText
StatusText(code) ==
  CASE code = 200 -> "200 OK"
    [] code = 201 -> "201 Created"
    [] code = 400 -> "400 Bad Request"
    [] OTHER -> Itoa(code)

Response(code, header, body, bodyErr, message) ==
  [isNil |-> FALSE, StatusCode |-> code, Status |-> StatusText(code), Header |-> header,
   Body |-> body, BodyErr |-> bodyErr, Message |-> message]

\* What the server may answer.  A 200 answer carries a text body (whose read
\* may fail) and may carry the next-page header; any other answer carries the
\* JSON error envelope {error: {code, message}}, of which Message is the
\* message ("" when the server wrote only the status).
Responses ==
  {Response(StatusOK, h, "-----BEGIN PGP PUBLIC KEY BLOCK-----", e, "") :
     h \in {EmptyValues, Set(EmptyValues, "X-HKP-Next-Page-Token", "bar")},
     e \in BOOLEAN}
  \cup {Response(201, EmptyValues, "", FALSE, ""),
        Response(400, EmptyValues, "", FALSE, ""),
        Response(400, EmptyValues, "", FALSE, "blah")}

\* The ways httpClient.Do fails
TransportFailures == {"connection refused", "context canceled"}

Versions == {"", "1.2.3"}

\* What the server may answer to GetVersion: on 200 the JSON of a VersionInfo,
\* whole or cut short, whose read may fail; otherwise the error envelope
VersionResponses ==
  {Response(StatusOK, EmptyValues, WriteResponse([Version |-> v]), FALSE, "") : v \in Versions}
  \cup {Response(StatusOK, EmptyValues, WriteResponse([Version |-> "1.2.3"]), TRUE, ""),
        Response(StatusOK, EmptyValues, "{\"data\":{\"version\":\"1.2", FALSE, ""),
        Response(StatusOK, EmptyValues, "", FALSE, ""),
        Response(400, EmptyValues, "", FALSE, ""),
        Response(400, EmptyValues, "", FALSE, "blah")}

VersionOutcomes ==
  {Responded(res) : res \in VersionResponses} \cup {Failed(why) : why \in TransportFailures}

\* The fingerprints GetKey is given: 00 01 .. 13, all ff, and a mixed one
Fingerprints ==
  {[i \in 1..FingerprintLen |-> i - 1],
   [i \in 1..FingerprintLen |-> 255],
   [i \in 1..FingerprintLen |-> (i * 37 + 171) % 256]}

\* What newRequest is given when it is called on its own
Methods == {"", "GET", "POST", "b@d\t", "G T"}
Paths == {"", "/path", "path", "../path"}
RawQueries == {"", "a=b"}
Bodies == {"", "body"}

Outcomes == {Responded(res) : res \in Responses} \cup {Failed(why) : why \in TransportFailures}

(***************************************************************************)
(* State                                                                   *)
(***************************************************************************)
Callers == {1}

VARIABLES
  client,       \* the *Client NewClient returned (NoClient before, and on error)
  construction, \* the last NewClient call: whether made, its cfg and its error
  call,         \* per caller: the call in progress, its arguments and its results
  sent          \* per caller: the requests the call handed to httpClient.Do

vars == <<client, construction, call, sent>>

IdleCall ==
  [pc |-> "idle", op |-> "", keyText |-> "", pdIn |-> NilPageDetails, search |-> "",
   operation |-> "", fingerprint |-> FALSE, exact |-> FALSE, options |-> <<>>,
   req |-> NoRequest, outcome |-> Failed(""), err |-> NoError, response |-> "",
   pd |-> NilPageDetails, method |-> "", path |-> "", rawQuery |-> "", body |-> "",
   fp |-> <<>>, vi |-> NoVersionInfo]

Init ==
  /\ client = NoClient
  /\ construction = [called |-> FALSE, cfg |-> NilConfig, err |-> NoError]
  /\ call = [c \in Callers |-> IdleCall]
  /\ sent = [c \in Callers |-> <<>>]

(***************************************************************************)
(* Actions                                                                 *)
(***************************************************************************)
Constructed(cfg, r) ==
  /\ client' = r.c
  /\ construction' = [called |-> TRUE, cfg |-> cfg, err |-> r.err]

\* NewClient(cfg): the caller keeps the client it returns
Construct(cfg) ==
  /\ client.isNil
  /\ \A c \in DOMAIN call : call[c].pc = "idle"
  /\ Constructed(cfg, NewClient(cfg))
  /\ UNCHANGED <<call, sent>>

\* Begin with the reference resolved in place, into the base URL of the client
Begin_InPlace(c, started, r) ==
  /\ call' = [call EXCEPT ![c] =
       IF r.err # NoError THEN [started EXCEPT !.pc = "done", !.err = r.err]
       ELSE [started EXCEPT !.pc = "inflight", !.req = r.req]]
  /\ sent' = [sent EXCEPT ![c] = IF r.err # NoError THEN @ ELSE Append(@, r.req)]
  /\ client' = IF r.err # NoError THEN client ELSE [client EXCEPT !.baseURL = r.req.URL]
  /\ UNCHANGED construction

\* Begin with the request handed to the transport a second time
Begin_Twice(c, started, r) ==
  /\ call' = [call EXCEPT ![c] =
       IF r.err # NoError THEN [started EXCEPT !.pc = "done", !.err = r.err]
       ELSE [started EXCEPT !.pc = "inflight", !.req = r.req]]
  /\ sent' = [sent EXCEPT ![c] = IF r.err # NoError THEN @ ELSE @ \o <<r.req, r.req>>]
  /\ UNCHANGED <<client, construction>>

\* A call that built its request hands it to the transport and waits; one
\* that could not returns the error at once.
Begin(c, started, r) ==
  /\ call' = [call EXCEPT ![c] =
       IF r.err # NoError THEN [started EXCEPT !.pc = "done", !.err = r.err]
       ELSE [started EXCEPT !.pc = "inflight", !.req = r.req]]
  /\ sent' = [sent EXCEPT ![c] = IF r.err # NoError THEN @ ELSE Append(@, r.req)]
  /\ UNCHANGED <<client, construction>>

\* A call of newRequest alone returns the request or the error
Built(c, started, r) ==
  call' = [call EXCEPT ![c] = [started EXCEPT !.pc = "done", !.req = r.req, !.err = r.err]]

\* c.PKSAdd(ctx, keyText), up to httpClient.Do
PKSAdd(c, keyText) ==
  /\ ~ client.isNil
  /\ call[c].pc = "idle"
  /\ Begin(c, [IdleCall EXCEPT !.op = "PKSAdd", !.keyText = keyText],
           PKSAddRequest(client, keyText))

\* c.PKSLookup(ctx, pd, search, operation, fingerprint, exact, options), up to
\* httpClient.Do
PKSLookup(c, pd, search, operation, fingerprint, exact, options) ==
  /\ ~ client.isNil
  /\ call[c].pc = "idle"
  /\ Begin(c, [IdleCall EXCEPT !.op = "PKSLookup", !.pdIn = pd, !.pd = pd,
                               !.search = search, !.operation = operation,
                               !.fingerprint = fingerprint, !.exact = exact,
                               !.options = options],
           PKSLookupRequest(client, pd, search, operation, fingerprint, exact, options))

\* httpClient.Do returns, and PKSAdd runs to its return
PKSAddDone(c, outcome) ==
  /\ call[c].pc = "inflight"
  /\ call[c].op = "PKSAdd"
  /\ call' = [call EXCEPT ![c] =
       [@ EXCEPT !.pc = "done", !.outcome = outcome, !.err = PKSAddResult(outcome)]]
  /\ UNCHANGED <<client, construction, sent>>

LookupReturned(c, outcome, r) ==
  call' = [call EXCEPT ![c] =
    [@ EXCEPT !.pc = "done", !.outcome = outcome, !.err = r.err,
              !.response = r.response, !.pd = r.pd]]

\* httpClient.Do returns, and PKSLookup runs to its return
PKSLookupDone(c, outcome) ==
  /\ call[c].pc = "inflight"
  /\ call[c].op = "PKSLookup"
  /\ LookupReturned(c, outcome, PKSLookupResult(call[c].pd, outcome))
  /\ UNCHANGED <<client, construction, sent>>

GetKeyLookup(c, fingerprint, search) ==
  Begin(c, [IdleCall EXCEPT !.op = "GetKey", !.fp = fingerprint, !.search = search,
                            !.operation = OperationGet, !.exact = TRUE],
        GetKeyRequest(client, search))

\* c.GetKey(ctx, fingerprint), up to httpClient.Do
GetKey(c, fingerprint) ==
  /\ ~ client.isNil
  /\ call[c].pc = "idle"
  /\ GetKeyLookup(c, fingerprint, SprintfHex(fingerprint))

\* httpClient.Do returns, and GetKey returns what PKSLookup returns
GetKeyDone(c, outcome) ==
  /\ call[c].pc = "inflight"
  /\ call[c].op = "GetKey"
  /\ LookupReturned(c, outcome, PKSLookupResult(NilPageDetails, outcome))
  /\ UNCHANGED <<client, construction, sent>>

\* c.GetVersion(ctx), up to c.Do
GetVersion(c) ==
  /\ ~ client.isNil
  /\ call[c].pc = "idle"
  /\ Begin(c, [IdleCall EXCEPT !.op = "GetVersion"], GetVersionRequest(client))

VersionReturned(c, outcome, r) ==
  call' = [call EXCEPT ![c] =
    [@ EXCEPT !.pc = "done", !.outcome = outcome, !.err = r.err, !.vi = r.vi]]

\* c.Do returns, and GetVersion runs to its return
GetVersionDone(c, outcome) ==
  /\ call[c].pc = "inflight"
  /\ call[c].op = "GetVersion"
  /\ VersionReturned(c, outcome, GetVersionResult(outcome))
  /\ UNCHANGED <<client, construction, sent>>

\* c.newRequest(method, path, rawQuery, body), called on its own: it builds the
\* request, or fails, and sends nothing
CallNewRequest(c, method, path, rawQuery, body) ==
  /\ ~ client.isNil
  /\ call[c].pc = "idle"
  /\ Built(c, [IdleCall EXCEPT !.op = "newRequest", !.method = method, !.path = path,
                               !.rawQuery = rawQuery, !.body = body],
           newRequest(client, method, path, rawQuery, body))
  /\ UNCHANGED <<client, construction, sent>>

\* The caller takes the results and is free to call again
Return(c) ==
  /\ call[c].pc = "done"
  /\ call' = [call EXCEPT ![c] = IdleCall]
  /\ sent' = [sent EXCEPT ![c] = <<>>]
  /\ UNCHANGED <<client, construction>>

Next ==
  \/ \E cfg \in Configs : Construct(cfg)
  \/ \E c \in Callers, keyText \in KeyTexts : PKSAdd(c, keyText)
  \/ \E c \in Callers, pd \in PageDetailsIn, search \in Searches,
        operation \in Operations, fingerprint \in BOOLEAN, exact \in BOOLEAN,
        options \in OptionLists :
       PKSLookup(c, pd, search, operation, fingerprint, exact, options)
  \/ \E c \in Callers, outcome \in Outcomes : PKSAddDone(c, outcome)
  \/ \E c \in Callers, outcome \in Outcomes : PKSLookupDone(c, outcome)
  \/ \E c \in Callers, fingerprint \in Fingerprints : GetKey(c, fingerprint)
  \/ \E c \in Callers, outcome \in Outcomes : GetKeyDone(c, outcome)
  \/ \E c \in Callers : GetVersion(c)
  \/ \E c \in Callers, outcome \in VersionOutcomes : GetVersionDone(c, outcome)
  \/ \E c \in Callers, method \in Methods, path \in Paths, rawQuery \in RawQueries,
        body \in Bodies :
       CallNewRequest(c, method, path, rawQuery, body)
  \/ \E c \in Callers : Return(c)

Spec == Init /\ [][Next]_vars

(***************************************************************************)
(* Concurrent calls on one client                                          *)
(***************************************************************************)
\* Two goroutines share the client
ConcurrentCallers == {1, 2}

ConcurrentConfigs ==
  {NilConfig,
   [isNil |-> FALSE, BaseURL |-> "hkps://hkps.pool.sks-keyservers.net/a/b/",
    AuthToken |-> "blah", UserAgent |-> "", HTTPClient |-> NilHTTPClient],
   [isNil |-> FALSE, BaseURL |-> "", AuthToken |-> "blah",
    UserAgent |-> "Secret Agent Man", HTTPClient |-> "custom"]}

ConcurrentPageDetails == {NilPageDetails, [isNil |-> FALSE, Size |-> 42, Token |-> "foo"]}

ConcurrentOutcomes ==
  {Responded(Response(StatusOK, Set(EmptyValues, "X-HKP-Next-Page-Token", "bar"),
                      "-----BEGIN PGP PUBLIC KEY BLOCK-----", FALSE, "")),
   Responded(Response(400, EmptyValues, "", FALSE, "blah")),
   Failed("context canceled")}

ConcurrentVersionOutcomes ==
  {Responded(Response(StatusOK, EmptyValues, WriteResponse([Version |-> "1.2.3"]),
                      FALSE, "")),
   Responded(Response(400, EmptyValues, "", FALSE, "")),
   Failed("connection refused")}

ConcurrentInit ==
  /\ client = NoClient
  /\ construction = [called |-> FALSE, cfg |-> NilConfig, err |-> NoError]
  /\ call = [c \in ConcurrentCallers |-> IdleCall]
  /\ sent = [c \in ConcurrentCallers |-> <<>>]

\* The client is made once; then every caller calls any operation at any time,
\* whatever the other caller is doing
ConcurrentNext ==
  \/ \E cfg \in ConcurrentConfigs : Construct(cfg)
  \/ \E c \in ConcurrentCallers : PKSAdd(c, "key")
  \/ \E c \in ConcurrentCallers, pd \in ConcurrentPageDetails :
       PKSLookup(c, pd, "search", OperationGet, FALSE, TRUE, <<OptionMachineReadable>>)
  \/ \E c \in ConcurrentCallers, outcome \in ConcurrentOutcomes : PKSAddDone(c, outcome)
  \/ \E c \in ConcurrentCallers, outcome \in ConcurrentOutcomes : PKSLookupDone(c, outcome)
  \/ \E c \in ConcurrentCallers : GetKey(c, [i \in 1..FingerprintLen |-> i - 1])
  \/ \E c \in ConcurrentCallers, outcome \in ConcurrentOutcomes : GetKeyDone(c, outcome)
  \/ \E c \in ConcurrentCallers : GetVersion(c)
  \/ \E c \in ConcurrentCallers, outcome \in ConcurrentVersionOutcomes :
       GetVersionDone(c, outcome)
  \/ \E c \in ConcurrentCallers, method \in {"GET", "b@d\t"}, path \in {"/path", "path"} :
       CallNewRequest(c, method, path, "a=b", "")
  \/ \E c \in ConcurrentCallers : Return(c)

ConcurrentSpec == ConcurrentInit /\ [][ConcurrentNext]_vars

(***************************************************************************)
(* Properties                                                              *)
(***************************************************************************)
\* The address NewClient parses for a configuration
AddressOf(cfg) == IF cfg.isNil \/ cfg.BaseURL = "" THEN defaultBaseURL ELSE cfg.BaseURL

SupportedSchemes == {"http", "https", "hkp", "hkps"}

Constructed_OK == construction.err = NoError /\ ~ client.isNil
Constructed_Failed == construction.err # NoError /\ client.isNil

\* The query parameters the server reads from the request of caller c
QueryOf(c) == ParseQuery(call[c].req.URL.RawQuery)

Lookups == {c \in Callers : call[c].op = "PKSLookup" /\ call[c].pc # "idle"}
Adds == {c \in Callers : call[c].op = "PKSAdd" /\ call[c].pc # "idle"}

\* The call of caller c got a response whose status is not 200
Non200(c) ==
  /\ call[c].pc = "done"
  /\ call[c].outcome.err = NoError
  /\ call[c].outcome.res.StatusCode # StatusOK

C1_Holds(cfg, parsed, n) ==
  (parsed.err = NoError /\ n.err = NoError /\ cfg.AuthToken # "" /\ n.url.Scheme # "https")
  => IF Hostname(n.url) = "localhost"
     THEN Constructed_OK /\ client.authToken = cfg.AuthToken
     ELSE Constructed_Failed

C1_Parsed(cfg, parsed) == C1_Holds(cfg, parsed, normalizeURL(parsed.url))

\* C1: NewClient with a non-empty auth token and a base address whose
\* normalized scheme is not https fails unless the host is the name localhost
\* (with or without a port), in which case it succeeds and keeps the token.
C1_InsecureTokenRejected ==
  construction.called
  => C1_Parsed(construction.cfg, Parse(AddressOf(construction.cfg)))

\* The table of scheme normalization, for address u and its normalization n
C2_Table(u, n) ==
  /\ u.Scheme \in {"http", "https"} => n.err = NoError /\ n.url = u
  /\ u.Scheme = "hkp"
     => /\ n.err = NoError
        /\ n.url.Scheme = "http"
        /\ Hostname(n.url) = Hostname(u)
        /\ Port(n.url) = (IF Port(u) = "" THEN "11371" ELSE Port(u))
  /\ u.Scheme = "hkps" => n.err = NoError /\ n.url = [u EXCEPT !.Scheme = "https"]
  /\ u.Scheme \in SupportedSchemes => n.url.Path = u.Path /\ n.url.RawQuery = u.RawQuery
  /\ u.Scheme \notin SupportedSchemes => n.err # NoError

C2_Stored(u, n) ==
  /\ C2_Table(u, n)
  /\ (n.err = NoError /\ ~ client.isNil)
     => /\ client.baseURL = n.url
        /\ \A c \in Callers : \A i \in 1..Len(sent[c]) :
             /\ sent[c][i].URL.Scheme = n.url.Scheme
             /\ sent[c][i].URL.Host = n.url.Host

C2_Parsed(parsed) ==
  parsed.err = NoError => C2_Stored(parsed.url, normalizeURL(parsed.url))

\* C2: normalization maps http and https to themselves, hkp to http with port
\* 11371 when no port is given, hkps to https, leaves path and query alone and
\* fails for any other scheme; the base address NewClient stores and the URL
\* of every request carry the normalized scheme and port.
C2_NormalizedEverywhere ==
  construction.called => C2_Parsed(Parse(AddressOf(construction.cfg)))

C3_Parsed(parsed) ==
  (parsed.err # NoError \/ parsed.url.Scheme \notin SupportedSchemes)
  => Constructed_Failed

\* C3: NewClient returns an error and no client when the base address is
\* malformed or has a scheme other than http, https, hkp and hkps.
C3_BadAddressRejected ==
  construction.called => C3_Parsed(Parse(AddressOf(construction.cfg)))

\* C4: after a response whose status is not 200, the error returned is the
\* typed JSON-response error with the status as its code and the message of
\* the error envelope of the body ("" when the server gave none) as its message.
C4_ErrorCarriesEnvelopeMessage ==
  \A c \in Callers :
    Non200(c)
    => call[c].err = JSONError(call[c].outcome.res.StatusCode,
                               call[c].outcome.res.Message)

C5_Request(c, req) ==
  /\ Len(sent[c]) = 1
  /\ sent[c][1] = req
  /\ req.Method = "POST"
  /\ req.URL.Path = "/pks/add"
  /\ Has(req.Header, "Content-Type")
  /\ req.Header["Content-Type"] = <<"application/x-www-form-urlencoded">>
  /\ DOMAIN ParseQuery(req.Body) = {"keytext"}
  /\ ParseQuery(req.Body)["keytext"] = <<call[c].keyText>>

C5_Result(c, outcome) ==
  /\ call[c].err = NoError
     <=> (outcome.err = NoError /\ outcome.res.StatusCode = 200)
  /\ (outcome.err = NoError /\ outcome.res.StatusCode # 200)
     => call[c].err.kind = "jsonresp.Error" /\ call[c].err.Code = outcome.res.StatusCode

\* C5: PKSAdd sends one POST to /pks/add with Content-Type
\* application/x-www-form-urlencoded and a form body whose only field is
\* keytext, equal to the key text of the caller; it returns no error exactly
\* when the response status is 200, and otherwise an error with that status.
C5_PKSAddRequestAndResult ==
  \A c \in Adds :
    /\ C5_Request(c, call[c].req)
    /\ call[c].pc = "done" => C5_Result(c, call[c].outcome)

C5_Witness ==
  \E c \in Adds :
    /\ call[c].pc = "done"
    /\ call[c].keyText = "mQ+/ =x&y"
    /\ call[c].outcome.err = NoError
    /\ call[c].outcome.res.StatusCode = 201
    /\ call[c].err.Code = 201

C6_Query(pd, q) ==
  /\ Has(q, "x-pagesize") => (~ pd.isNil /\ pd.Size # 0)
  /\ Has(q, "x-pagesize") => q["x-pagesize"] = <<Itoa(pd.Size)>>
  /\ Has(q, "x-pagetoken") => (~ pd.isNil /\ pd.Token # "")

\* C6: in a lookup request x-pagesize is present only if a cursor was given
\* and its size is not zero (its value the decimal size), and x-pagetoken
\* only if a cursor was given and its token is not empty.
C6_PageParametersOnlyWhenSet ==
  \A c \in Lookups : C6_Query(call[c].pdIn, QueryOf(c))

C7_Query(options, q) ==
  /\ Has(q, "options") <=> Len(options) > 0
  /\ Has(q, "options") => q["options"] = <<Join(options, ",")>>

\* C7: in a lookup request the options parameter is present exactly when the
\* options list is not empty, once, the tokens joined by commas in order.
C7_OptionsOnlyWhenGiven ==
  \A c \in Lookups : C7_Query(call[c].options, QueryOf(c))

C8_Flag(q, key, flag) ==
  /\ Has(q, key) <=> flag
  /\ Has(q, key) => q[key] = <<"on">>

C8_Query(c, q) ==
  /\ C8_Flag(q, "fingerprint", call[c].fingerprint)
  /\ C8_Flag(q, "exact", call[c].exact)

\* C8: in a lookup request the fingerprint parameter is present (once, with
\* value on) exactly when the fingerprint flag is true, and likewise exact.
C8_FlagsOnOrAbsent ==
  \A c \in Lookups : C8_Query(c, QueryOf(c))

C8_Witness ==
  \E c \in Lookups :
    /\ call[c].fingerprint
    /\ ~ call[c].exact
    /\ Has(QueryOf(c), "fingerprint")
    /\ ~ Has(QueryOf(c), "exact")

\* The value of the X-HKP-Next-Page-Token header of a response, "" when absent
NextPageTokenOf(res) ==
  IF Has(res.Header, "X-HKP-Next-Page-Token") THEN res.Header["X-HKP-Next-Page-Token"][1]
  ELSE ""

C9_Returned(c, res) ==
  /\ call[c].response = res.Body
  /\ call[c].pd.isNil = call[c].pdIn.isNil
  /\ call[c].pd.Size = call[c].pdIn.Size
  /\ ~ call[c].pdIn.isNil => call[c].pd.Token = NextPageTokenOf(res)

\* C9: a lookup that succeeds returns the response body unchanged, and a
\* cursor that was supplied has its token overwritten with the value of the
\* X-HKP-Next-Page-Token response header ("" when absent), its size unchanged.
C9_SuccessReturnsBodyAndNextToken ==
  \A c \in Lookups :
    (call[c].pc = "done" /\ call[c].err = NoError)
    => (call[c].outcome.err = NoError /\ C9_Returned(c, call[c].outcome.res))

C9_Witness ==
  \E c \in Lookups :
    /\ call[c].pc = "done"
    /\ call[c].err = NoError
    /\ call[c].pdIn = [isNil |-> FALSE, Size |-> 42, Token |-> "foo"]
    /\ ~ Has(call[c].outcome.res.Header, "X-HKP-Next-Page-Token")
    /\ call[c].pd.Token = ""

C10_MissingInput(c) ==
  \/ call[c].op = "PKSLookup" /\ (call[c].search = "" \/ call[c].operation = "")
  \/ call[c].op = "PKSAdd" /\ call[c].keyText = ""

\* C10: PKSLookup with an empty search term or an empty operation, and PKSAdd
\* with an empty key text, return an error.
C10_MissingInputRejected ==
  \A c \in Callers :
    (call[c].pc = "done" /\ C10_MissingInput(c)) => call[c].err # NoError

\* The calls of newRequest on its own that have returned
Builds == {c \in Callers : call[c].op = "newRequest" /\ call[c].pc = "done"}

\* Every request a call built: those handed to the transport and the one a
\* call of newRequest returned
RequestsBuilt ==
  UNION {{sent[c][i] : i \in 1..Len(sent[c])} : c \in Callers}
  \cup {call[c].req : c \in {b \in Builds : ~ call[b].req.isNil}}

C13_Header(header, key, configured, value) ==
  /\ Has(header, key) <=> configured # ""
  /\ Has(header, key) => header[key] = <<value>>

C13_Request(cfg, req) ==
  /\ C13_Header(req.Header, "Authorization", cfg.AuthToken, "BEARER " \o cfg.AuthToken)
  /\ C13_Header(req.Header, "User-Agent", cfg.UserAgent, cfg.UserAgent)

\* C13: every request the client builds has one Authorization header, BEARER
\* followed by a space and the token, exactly when the configured auth token is
\* not empty, and one User-Agent header, the configured user agent, exactly
\* when that is not empty.
C13_HeadersIffConfigured ==
  \A req \in RequestsBuilt : C13_Request(construction.cfg, req)

C13_Witness ==
  /\ construction.cfg.AuthToken = "blah"
  /\ construction.cfg.UserAgent = "Secret Agent Man"
  /\ \E req \in RequestsBuilt :
       /\ req.Header["Authorization"] = <<"BEARER blah">>
       /\ req.Header["User-Agent"] = <<"Secret Agent Man">>

\* The base path with its last segment removed, as a relative path sees it
C14_Directory(basePath) == SubSeq(basePath, 1, LastIndexOf(basePath, "/"))

C14_Leading(path) == IF path = "" THEN "" ELSE Char(path, 1)

\* The path of a request for path, resolved against basePath
C14_Resolved(basePath, path) ==
  IF C14_Leading(path) = "/" THEN path
  ELSE IF basePath = "" THEN (IF path = "" THEN "" ELSE "/" \o path)
  ELSE C14_Directory(basePath) \o path

C14_Request(base, c, req) ==
  /\ req.URL.Path = C14_Resolved(base.Path, call[c].path)
  /\ req.URL.Scheme = base.Scheme
  /\ req.URL.Host = base.Host
  /\ req.URL.RawQuery = call[c].rawQuery

\* The path has a segment "." or ".."
C14_HasDots(path) == \E i \in 1..Len(Split(path, "/")) : Split(path, "/")[i] \in {".", ".."}

\* Dot segments are removed from the path, the rest is as for any path
C14_Dots(base, c, req) ==
  /\ ~ C14_HasDots(req.URL.Path)
  /\ req.URL.Scheme = base.Scheme
  /\ req.URL.Host = base.Host
  /\ req.URL.RawQuery = call[c].rawQuery

C14_Stated(base, c, req) ==
  IF C14_HasDots(call[c].path) THEN C14_Dots(base, c, req) ELSE C14_Request(base, c, req)

\* C14 as stated: for every path, a leading slash replaces the base path, a
\* relative path is appended to a base path ending in a slash and replaces the
\* last segment of one that does not (dot segments being removed, as reference
\* resolution does); scheme and host are those of the base address and the raw
\* query is the one given.
C14_ResolvedForEveryPath ==
  \A c \in Builds :
    ~ call[c].req.isNil => C14_Stated(client.baseURL, c, call[c].req)

\* With an empty path the base path is kept, and with an empty raw query too
\* the base query is kept
C14_EmptyPath(base, c, req) ==
  /\ req.URL.Path = base.Path
  /\ req.URL.Scheme = base.Scheme
  /\ req.URL.Host = base.Host
  /\ req.URL.RawQuery = (IF call[c].rawQuery = "" THEN base.RawQuery ELSE call[c].rawQuery)

C14_Built(base, c, req) ==
  IF call[c].path = "" THEN C14_EmptyPath(base, c, req)
  ELSE IF C14_HasDots(call[c].path) THEN C14_Dots(base, c, req)
  ELSE C14_Request(base, c, req)

\* C14: for a path that is not empty and has no dot segments, a leading slash
\* replaces the base path, a relative path is appended to a base path ending
\* in a slash and replaces the last segment of one that does not, scheme and
\* host are those of the base address and the raw query is the one given; dot
\* segments are removed from the resolved path; an empty path keeps the base
\* path, and the base query when the raw query is empty too.
C14_ReferenceResolution ==
  \A c \in Builds :
    ~ call[c].req.isNil => C14_Built(client.baseURL, c, call[c].req)

C14_Witness ==
  \E c \in Builds :
    /\ client.baseURL.Path = "/a/b"
    /\ call[c].path = "path"
    /\ call[c].rawQuery = "a=b"
    /\ ~ call[c].req.isNil
    /\ String(call[c].req.URL) = "hkp://pool.sks-keyservers.net/a/path?a=b"

\* A method as HTTP defines it: a token, one or more token characters
C18_IsToken(method) ==
  /\ method # ""
  /\ \A i \in 1..Len(method) : Char(method, i) \in Letters \cup Digits \cup TokenPunctuation

C18_Failed(c) ==
  /\ call[c].req.isNil
  /\ call[c].err # NoError
  /\ sent[c] = <<>>

C18_NoTransportWithoutRequest ==
  \A c \in Callers :
    (call[c].pc = "done" /\ call[c].req.isNil)
    => (call[c].err # NoError /\ sent[c] = <<>>)

\* C18 as stated: newRequest returns an error and no request whenever the
\* method is not a valid HTTP token, and a call whose request cannot be built
\* returns the error without invoking the transport.
C18_NonTokenMethodRejected ==
  /\ \A c \in Builds : ~ C18_IsToken(call[c].method) => C18_Failed(c)
  /\ C18_NoTransportWithoutRequest

\* C18: newRequest returns an error and no request whenever the method is not
\* empty and not a valid HTTP token (an empty method means GET), and a call
\* whose request cannot be built returns the error without invoking the
\* transport.
C18_InvalidMethodRejected ==
  /\ \A c \in Builds :
       /\ (call[c].method # "" /\ ~ C18_IsToken(call[c].method)) => C18_Failed(c)
       /\ (call[c].method = "" /\ ~ call[c].req.isNil) => call[c].req.Method = "GET"
  /\ C18_NoTransportWithoutRequest

C18_Witness ==
  \E c \in Builds :
    /\ call[c].method = "b@d\t"
    /\ call[c].req.isNil
    /\ call[c].err.Message = "invalid method"

\* The calls of GetKey that built their request
GetKeys == {c \in Callers : call[c].op = "GetKey" /\ ~ call[c].req.isNil}

C11_LowerHex ==
  <<"0", "1", "2", "3", "4", "5", "6", "7", "8", "9", "a", "b", "c", "d", "e", "f">>

C11_IsHex(ch) == \E v \in 1..16 : C11_LowerHex[v] = ch
C11_Value(ch) == (CHOOSE v \in 1..16 : C11_LowerHex[v] = ch) - 1

\* search is 0x and then, for each byte of the fingerprint in order, its two
\* lowercase hexadecimal digits
C11_Renders(search, fingerprint) ==
  /\ Len(search) = 42
  /\ SubSeq(search, 1, 2) = "0x"
  /\ \A i \in 3..42 : C11_IsHex(Char(search, i))
  /\ \A i \in 1..20 :
       16 * C11_Value(Char(search, 2 * i + 1)) + C11_Value(Char(search, 2 * i + 2))
         = fingerprint[i]

C11_Lookup(c, req, q) ==
  /\ sent[c] = <<req>>
  /\ req.Method = "GET"
  /\ req.URL.Path = "/pks/lookup"
  /\ {"search", "op", "exact"} \subseteq DOMAIN q
  /\ Len(q["search"]) = 1
  /\ C11_Renders(q["search"][1], call[c].fp)
  /\ q["op"] = <<"get">>
  /\ q["exact"] = <<"on">>
  /\ DOMAIN q \cap {"fingerprint", "x-pagesize", "x-pagetoken"} = {}

C11_Result(c, outcome) ==
  /\ (outcome.err = NoError /\ outcome.res.StatusCode = 200 /\ ~ outcome.res.BodyErr)
     => (call[c].err = NoError /\ call[c].response = outcome.res.Body)
  /\ (outcome.err = NoError /\ outcome.res.StatusCode = 200 /\ outcome.res.BodyErr)
     => (call[c].err = ReadError /\ call[c].response = "")
  /\ (outcome.err = NoError /\ outcome.res.StatusCode # 200)
     => (call[c].err.kind = "jsonresp.Error"
         /\ call[c].err.Code = outcome.res.StatusCode
         /\ call[c].response = "")
  /\ outcome.err # NoError => (call[c].err = outcome.err /\ call[c].response = "")

\* C11: GetKey issues one lookup, a GET of /pks/lookup with op=get, exact=on,
\* no fingerprint and no pagination parameter and search equal to 0x followed
\* by the 40 lowercase hexadecimal digits of the fingerprint, and returns the
\* text or the error of that lookup.
C11_GetKeyIsLookupByHex ==
  \A c \in GetKeys :
    /\ C11_Lookup(c, call[c].req, QueryOf(c))
    /\ call[c].pc = "done" => C11_Result(c, call[c].outcome)

C11_Witness ==
  \E c \in GetKeys :
    /\ call[c].pc = "done"
    /\ call[c].fp = [i \in 1..20 |-> i - 1]
    /\ QueryOf(c)["search"] = <<"0x000102030405060708090a0b0c0d0e0f10111213">>
    /\ call[c].err = NoError
    /\ call[c].response = "-----BEGIN PGP PUBLIC KEY BLOCK-----"

\* The calls of GetVersion that built their request
GetVersions == {c \in Callers : call[c].op = "GetVersion" /\ ~ call[c].req.isNil}

C12_Request(c, base, req) ==
  /\ sent[c] = <<req>>
  /\ req.Method = "GET"
  /\ req.Body = ""
  /\ req.URL.Scheme = base.Scheme
  /\ req.URL.Host = base.Host
  /\ req.URL.Path = C14_Resolved(base.Path, "version")
  /\ req.URL.RawQuery = ""

\* The body is the JSON of a VersionInfo with version v, and can be read
C12_Carries(res, v) == ~ res.BodyErr /\ res.Body = WriteResponse([Version |-> v])

C12_Answered(c, res) ==
  /\ res.StatusCode # 200
     => /\ Cause(call[c].err).kind = "jsonresp.Error"
        /\ Cause(call[c].err).Code = res.StatusCode
        /\ call[c].vi = NoVersionInfo
  /\ \A v \in Versions :
       (res.StatusCode = 200 /\ C12_Carries(res, v))
       => (call[c].err = NoError /\ call[c].vi.Version = v)
  /\ (res.StatusCode = 200 /\ \A v \in Versions : ~ C12_Carries(res, v))
     => /\ call[c].err # NoError
        /\ Cause(call[c].err).kind # "jsonresp.Error"
        /\ call[c].vi = NoVersionInfo

C15_Defaults(cfg) ==
  /\ (cfg.isNil \/ cfg.BaseURL = "")
     => /\ Constructed_OK
        /\ String(client.baseURL) = "https://keys.sylabs.io"
  /\ (~ client.isNil /\ (cfg.isNil \/ cfg.HTTPClient = NilHTTPClient))
     => client.httpClient = DefaultHTTPClient

C15_Stored(cfg, n) ==
  (~ client.isNil /\ ~ cfg.isNil)
  => /\ (cfg.BaseURL # "" /\ n.err = NoError) => client.baseURL = n.url
     /\ client.authToken = cfg.AuthToken
     /\ client.userAgent = cfg.UserAgent
     /\ cfg.HTTPClient # NilHTTPClient => client.httpClient = cfg.HTTPClient

C15_Parsed(cfg, parsed) ==
  C15_Defaults(cfg) /\ C15_Stored(cfg, normalizeURL(parsed.url))

\* C15: with a nil configuration or empty fields NewClient succeeds and the
\* client has base address https://keys.sylabs.io and the standard shared HTTP
\* client; every field supplied is stored as given, the address normalized.
C15_DefaultsAndStoredFields ==
  construction.called => C15_Parsed(construction.cfg, Parse(AddressOf(construction.cfg)))

\* The calls of the four operations that reached the transport and returned
Returned ==
  {c \in Callers : /\ call[c].op \in {"PKSAdd", "PKSLookup", "GetKey", "GetVersion"}
                   /\ call[c].pc = "done"
                   /\ Len(sent[c]) > 0}

C16_Surfaced(c, failure) ==
  /\ Cause(call[c].err) = failure
  /\ Cause(call[c].err).kind # "jsonresp.Error"
  /\ call[c].err.kind # "jsonresp.Error"
  /\ call[c].response = ""
  /\ call[c].vi = NoVersionInfo

\* C16: when the transport fails, the operation returns that failure as its
\* error, never a JSON-response error, and no result with it.
C16_TransportFailureSurfaced ==
  \A c \in Returned :
    call[c].outcome.err # NoError => C16_Surfaced(c, call[c].outcome.err)

C16_Witness ==
  \E c \in Returned :
    /\ call[c].op = "GetVersion"
    /\ call[c].outcome.err.Message = "connection refused"
    /\ call[c].err.Message = "connection refused"

\* The context was cancelled before the call of caller c completed: the
\* transport call failed with it, or the read of the body did in a call that
\* reads the body
C17_Cancelled(c, outcome) ==
  \/ outcome.err = TransportError("context canceled")
  \/ /\ call[c].op # "PKSAdd"
     /\ outcome.err = NoError
     /\ outcome.res.StatusCode = 200
     /\ outcome.res.BodyErr

\* C17: a call whose context is cancelled before it completes returns an error
\* and no partial result: an empty text, an empty VersionInfo.
C17_CancelledReturnsNothing ==
  \A c \in Returned :
    C17_Cancelled(c, call[c].outcome)
    => (call[c].err # NoError /\ call[c].response = "" /\ call[c].vi = NoVersionInfo)

C17_Witness ==
  \E c \in Returned :
    /\ call[c].op = "PKSLookup"
    /\ call[c].outcome.err = NoError
    /\ call[c].outcome.res.BodyErr
    /\ call[c].outcome.res.Body # ""
    /\ call[c].err = ReadError
    /\ call[c].response = ""

\* C19: whenever PKSLookup returns an error, the PageDetails of the caller are
\* as they were before the call.
C19_CursorKeptOnError ==
  \A c \in Lookups :
    (call[c].pc = "done" /\ call[c].err # NoError) => call[c].pd = call[c].pdIn

C20_Step(c) ==
  /\ Len(sent'[c]) <= 1
  /\ call[c].pc = "inflight"
     => (call'[c].pc \in {"inflight", "done"} /\ sent'[c] = sent[c])
  /\ call[c].pc = "done"
     => \/ call'[c] = call[c] /\ sent'[c] = sent[c]
        \/ call'[c] = IdleCall

\* C20: a call hands at most one request to the transport and returns once:
\* while it waits and after it returned, whatever the outcome, nothing more is
\* sent; NewClient sends nothing.
C20_AtMostOnce ==
  [][/\ \A c \in Callers : C20_Step(c)
     /\ construction' # construction => sent' = sent]_vars

C20_Witness ==
  \E c \in Returned :
    /\ call[c].outcome.err = NoError
    /\ call[c].outcome.res.StatusCode = 400
    /\ call[c].err # NoError
    /\ Len(sent[c]) = 1

\* What a caller passed to the operation it called
C21_Arguments(c) ==
  <<call[c].op, call[c].keyText, call[c].pdIn, call[c].search, call[c].operation,
    call[c].fingerprint, call[c].exact, call[c].options, call[c].method, call[c].path,
    call[c].rawQuery, call[c].body, call[c].fp>>

\* Two calls in progress of the same operation with the same arguments built
\* the same request (or both none), whatever was called in between
C21_SameRequest ==
  \A c1, c2 \in DOMAIN call :
    (call[c1].pc # "idle" /\ call[c2].pc # "idle" /\ C21_Arguments(c1) = C21_Arguments(c2))
    => call[c1].req = call[c2].req

\* The request of a call has the scheme and host of the base address and the
\* headers of the token and user agent of the configuration
C21_FromConfiguration ==
  \A c \in DOMAIN call :
    ~ call[c].req.isNil
    => /\ call[c].req.URL.Scheme = Parse(AddressOf(construction.cfg)).url.Scheme
       /\ call[c].req.URL.Host = Parse(AddressOf(construction.cfg)).url.Host
       /\ C13_Request(construction.cfg, call[c].req)

\* C21: once the client is constructed no step of any call, in any
\* interleaving of the calls of two callers, changes its base address, auth
\* token, user agent or HTTP client, and the request a call builds is a
\* function of that configuration and the arguments of the call.
C21_ClientImmutable ==
  /\ [][~ client.isNil => client' = client]_vars
  /\ [](C21_SameRequest /\ C21_FromConfiguration)

C21_Witness ==
  /\ ~ client.isNil
  /\ call[1].op = "PKSLookup"
  /\ call[1].pc = "inflight"
  /\ call[2].op = "PKSLookup"
  /\ call[2].pc = "done"
  /\ call[2].err # NoError
  /\ C21_Arguments(1) = C21_Arguments(2)
  /\ call[1].req = call[2].req
  /\ client.authToken = "blah"

====
